---- MODULE Spec2Model ----
(***************************************************************************)
(* Model of delli_tracker.py: one scheduled run of the product tracker is  *)
(* main() = record run start, fetch_all_products(), sync_products(),       *)
(* record run end.  The SQLite database is modelled as two copies of the   *)
(* tables: db is what is durable (committed), tx is what the open          *)
(* connection sees (db plus the statements of the open transaction).       *)
(* Columns that no comparison or branch of the code reads (handle, title,  *)
(* vendor, product_type, tags, image_url, variant_count) are left out.     *)
(***************************************************************************)
EXTENDS Integers, Sequences, FiniteSets, TLC

\* ---------------------------------------------------------------- bounds
MaxId == 2          \* product ids are 1..MaxId
MaxCatalog == 2     \* products the storefront lists in one run
PageLimit == 1      \* products per page (limit=250 in the code, scaled down)
MaxRuns == 2        \* executions of main()
MaxSyncs == 3       \* successive calls of sync_products

Ids == 1..MaxId

\* ------------------------------------------------------- raw product data
\* Python's None, as a JSON null in a variant and as a NULL column.
None == "None"

\* The variant lists a raw product can carry.  Prices are strings, as the
\* storefront API sends them.
VariantLists ==
  { << [price |-> "10.00", compare_at_price |-> None, available |-> TRUE] >>,
    << [price |-> "8.00", compare_at_price |-> "15.00", available |-> FALSE],
       [price |-> "9.00", compare_at_price |-> None, available |-> TRUE] >>,
    << [price |-> "10.00", compare_at_price |-> "abc", available |-> FALSE] >>,
    << >> }

RawProducts == [id : Ids, variants : VariantLists]

\* float(s) of the code, in hundredths; ParseError stands for ValueError.
ParseError == -1
ParseFloat(s) ==
  CASE s = "8.00" -> 800
    [] s = "9.00" -> 900
    [] s = "10.00" -> 1000
    [] s = "15.00" -> 1500
    [] OTHER -> ParseError

\* Truth value of a price field in `if price and compare_at_price`.
Truthy(s) == s /= None /\ s /= ""

extract_product_data(product) ==
  LET variants == product.variants
      price == IF variants /= << >> THEN variants[1].price ELSE None
      compare_at_price ==
        IF variants /= << >> THEN variants[1].compare_at_price ELSE None
      available == \E i \in 1..Len(variants) : variants[i].available
      on_sale ==
        /\ Truthy(price)
        /\ Truthy(compare_at_price)
        /\ ParseFloat(compare_at_price) /= ParseError
        /\ ParseFloat(price) /= ParseError
        /\ ParseFloat(compare_at_price) > ParseFloat(price)
  IN [id |-> product.id, price |-> price,
      compare_at_price |-> compare_at_price,
      on_sale |-> on_sale, available |-> available]

\* SQLite stores a Python bool in an INTEGER column as 0 or 1.
B2I(b) == IF b THEN 1 ELSE 0
\* str(bool) as it appears in a details payload.
BoolStr(b) == IF b THEN "true" ELSE "false"

\* ------------------------------------------------------------- the tables
EmptyTables ==
  [products |-> << >>, price_history |-> << >>, changes |-> << >>,
   runs |-> << >>]

\* SELECT * FROM products WHERE removed = 0, as the dict keyed by id.
ActiveIds(t) == {i \in DOMAIN t.products : t.products[i].removed = 0}
SelectActive(t) == [i \in ActiveIds(t) |-> t.products[i]]

ProductChange(pid, change_type, details) ==
  [product_id |-> pid, change_type |-> change_type, details |-> details]

\* INSERT INTO products ... (removed takes its DEFAULT 0).
InsertProduct(t, p, ts) ==
  [t EXCEPT !.products =
     [i \in DOMAIN t.products \cup {p.id} |->
        IF i = p.id
        THEN [id |-> p.id, price |-> p.price,
              compare_at_price |-> p.compare_at_price,
              on_sale |-> B2I(p.on_sale), available |-> B2I(p.available),
              first_seen |-> ts, last_seen |-> ts, removed |-> 0]
        ELSE t.products[i]]]

\* INSERT INTO price_history ...
InsertPrice(t, p, ts) ==
  [t EXCEPT !.price_history =
     Append(@, [product_id |-> p.id, price |-> p.price,
                compare_at_price |-> p.compare_at_price, recorded_at |-> ts])]

\* An UPDATE whose SET list misses the price column.
UpdateProductKeepsPrice(t, p, ts) ==
  [t EXCEPT !.products[p.id] =
     [@ EXCEPT !.compare_at_price = p.compare_at_price,
               !.on_sale = B2I(p.on_sale),
               !.available = B2I(p.available),
               !.last_seen = ts]]

\* UPDATE products SET ..., last_seen=? WHERE id=?
UpdateProduct(t, p, ts) ==
  [t EXCEPT !.products[p.id] =
     [@ EXCEPT !.price = p.price,
               !.compare_at_price = p.compare_at_price,
               !.on_sale = B2I(p.on_sale),
               !.available = B2I(p.available),
               !.last_seen = ts]]

\* UPDATE products SET removed = 1 WHERE id = ?
FlagRemoved(t, pid) == [t EXCEPT !.products[pid].removed = 1]

\* The events of one fetched product whose id is in `existing`.
PriceEvents(old, p) ==
  IF old.price /= p.price
  THEN << ProductChange(p.id, "price_change",
            << <<"old_price", old.price>>, <<"new_price", p.price>> >>) >>
  ELSE << >>

AvailabilityEvents(old, p) ==
  IF old.available /= B2I(p.available)
  THEN << ProductChange(p.id, "availability_change",
            << <<"was_available", BoolStr(old.available /= 0)>>,
               <<"now_available", BoolStr(p.available)>> >>) >>
  ELSE << >>

SaleStartedEvents(old, p) ==
  IF old.on_sale = 0 /\ p.on_sale
  THEN << ProductChange(p.id, "sale_started",
            << <<"price", p.price>>,
               <<"compare_at_price", p.compare_at_price>> >>) >>
  ELSE << >>

SaleEndedEvents(old, p) ==
  IF old.on_sale /= 0 /\ ~p.on_sale
  THEN << ProductChange(p.id, "sale_ended", << <<"price", p.price>> >>) >>
  ELSE << >>

ExistingEvents(old, p) ==
  PriceEvents(old, p) \o AvailabilityEvents(old, p)
    \o SaleStartedEvents(old, p) \o SaleEndedEvents(old, p)

\* One iteration of `for raw_product in products` on the open transaction t.
\* raised: the INSERT hit a products row with the same PRIMARY KEY
\* (sqlite3.IntegrityError, which nothing catches).
SyncOne(t, ex, raw, ts) ==
  LET p == extract_product_data(raw) IN
  IF p.id \notin DOMAIN ex
  THEN IF p.id \in DOMAIN t.products
       THEN [raised |-> TRUE, tables |-> t, events |-> << >>]
       ELSE [raised |-> FALSE,
             tables |-> InsertPrice(InsertProduct(t, p, ts), p, ts),
             events |-> << ProductChange(p.id, "new",
                             << <<"price", p.price>> >>) >>]
  ELSE [raised |-> FALSE,
        tables |-> UpdateProduct(
                     IF ex[p.id].price /= p.price
                     THEN InsertPrice(t, p, ts) ELSE t, p, ts),
        events |-> ExistingEvents(ex[p.id], p)]

\* `for pid in removed_ids`, visiting the ids in the order `order`.
RECURSIVE MarkRemoved(_, _)
MarkRemoved(t, order) ==
  IF order = << >> THEN t
  ELSE MarkRemoved(FlagRemoved(t, Head(order)), Tail(order))

RemovedEvents(order) ==
  [k \in 1..Len(order) |-> ProductChange(order[k], "removed", << >>)]

\* `for c in changes: INSERT INTO changes ...`
RecordChanges(t, cs, ts) ==
  [t EXCEPT !.changes =
     @ \o [k \in 1..Len(cs) |->
             [product_id |-> cs[k].product_id,
              change_type |-> cs[k].change_type,
              details |-> cs[k].details, recorded_at |-> ts]]]

\* The orders in which a Python set of ids can be iterated.
Orders(S) ==
  {o \in [1..Cardinality(S) -> S] :
     \A a, b \in 1..Cardinality(S) : a /= b => o[a] /= o[b]}

\* ------------------------------------------------------------ storefront
Catalogs ==
  UNION {[1..n -> RawProducts] : n \in 0..MaxCatalog}

Min(a, b) == IF a < b THEN a ELSE b

\* The products array of page n of the listing cat.
PageOf(cat, n) ==
  SubSeq(cat, (n - 1) * PageLimit + 1, Min(n * PageLimit, Len(cat)))

\* Number of the first page of cat that is empty.
LastPage(cat) == (Len(cat) + PageLimit - 1) \div PageLimit + 1


\* What GET /products.json?limit=..&page=n answers when the storefront lists
\* cat and the request for page `fail` ends in a requests.RequestException.
Response(cat, fail, n) ==
  IF n = fail THEN [ok |-> FALSE, products |-> << >>]
  ELSE [ok |-> TRUE, products |-> PageOf(cat, n)]

\* An except branch that gives up what the earlier pages delivered.
OnRequestExceptionDrops(acc) == << >>

\* `except requests.RequestException: ... break`: what the loop leaves in
\* all_products.
OnRequestException(acc) == acc

\* --------------------------------------------------------------- the state
VARIABLES
  pc,            \* position of main(): idle, fetch, fetched, sync, commit,
                 \* returned, exit_empty, raised
  db,            \* the durable (committed) tables
  tx,            \* the tables as the open connection sees them
  catalog,       \* the products the storefront lists during this run
  failAt,        \* page whose request fails in this run (0: none)
  timestamp,     \* main's timestamp (a run counter stands for the clock)
  page,          \* fetch_all_products: page
  all_products,  \* fetch_all_products: all_products, then main's raw_products
  requested,     \* the pages requested so far in this run, in order
  existing,      \* sync_products: existing
  fetched_ids,   \* sync_products: fetched_ids
  changes,       \* sync_products: changes
  idx,           \* sync_products: position of the for loop in products
  startDb,       \* the durable tables when this run started
  lastList,      \* the products list of the last committed sync_products
  prevList       \* lastList as it was when this run started

vars ==
  << pc, db, tx, catalog, failAt, timestamp, page, all_products, requested,
     existing, fetched_ids, changes, idx, startDb, lastList, prevList >>

Init ==
  /\ pc = "idle"
  /\ db = EmptyTables
  /\ tx = EmptyTables
  /\ catalog = << >>
  /\ failAt = 0
  /\ timestamp = 0
  /\ page = 1
  /\ all_products = << >>
  /\ requested = << >>
  /\ existing = << >>
  /\ fetched_ids = {}
  /\ changes = << >>
  /\ idx = 1
  /\ startDb = EmptyTables
  /\ lastList = << >>
  /\ prevList = << >>

\* The process is gone: its locals no longer exist.
ProcessGone ==
  /\ pc' = "idle"
  /\ catalog' = << >>
  /\ failAt' = 0
  /\ page' = 1
  /\ all_products' = << >>
  /\ requested' = << >>
  /\ existing' = << >>
  /\ fetched_ids' = {}
  /\ changes' = << >>
  /\ idx' = 1
  /\ prevList' = << >>
  /\ UNCHANGED << timestamp, lastList >>

\* main, up to the call of fetch_all_products: the run row is inserted and
\* committed before anything is fetched.
StartRun ==
  /\ pc = "idle"
  /\ Len(db.runs) < MaxRuns
  /\ \E cat \in Catalogs : \E f \in 0..LastPage(cat) :
       /\ catalog' = cat
       /\ failAt' = f
  /\ timestamp' = Len(db.runs) + 1
  /\ db' = [db EXCEPT !.runs =
              Append(@, [started_at |-> timestamp', completed_at |-> 0,
                         products_fetched |-> 0, changes_detected |-> 0])]
  /\ tx' = db'
  /\ startDb' = db
  /\ prevList' = lastList
  /\ pc' = "fetch"
  /\ page' = 1
  /\ all_products' = << >>
  /\ requested' = << >>
  /\ UNCHANGED << existing, fetched_ids, changes, idx, lastList >>

\* fetch_all_products: one iteration of `while True`.
FetchPage ==
  /\ pc = "fetch"
  /\ requested' = Append(requested, page)
  /\ LET r == Response(catalog, failAt, page) IN
       IF ~r.ok
       THEN /\ all_products' = OnRequestException(all_products)
            /\ pc' = "fetched"
            /\ page' = page
       ELSE IF r.products = << >>
       THEN /\ pc' = "fetched"
            /\ UNCHANGED << all_products, page >>
       ELSE /\ all_products' = all_products \o r.products
            /\ page' = page + 1
            /\ pc' = "fetch"
  /\ UNCHANGED << db, tx, catalog, failAt, timestamp, existing, fetched_ids,
                  changes, idx, startDb, lastList, prevList >>

\* A main that does not test the fetch result.
NoProductsNeverTested(raw_products) == FALSE

\* main: `if not raw_products`.
NoProducts(raw_products) == raw_products = << >>

\* main: `print("ERROR: No products fetched. Exiting."); return`
ReturnEmpty ==
  /\ pc = "fetched"
  /\ NoProducts(all_products)
  /\ pc' = "exit_empty"
  /\ UNCHANGED << db, tx, catalog, failAt, timestamp, page, all_products,
                  requested, existing, fetched_ids, changes, idx, startDb,
                  lastList, prevList >>

\* sync_products, up to the for loop: read the active rows.
SyncBegin ==
  /\ pc = "fetched"
  /\ ~NoProducts(all_products)
  /\ existing' = SelectActive(tx)
  /\ fetched_ids' = {}
  /\ changes' = << >>
  /\ idx' = 1
  /\ pc' = "sync"
  /\ UNCHANGED << db, tx, catalog, failAt, timestamp, page, all_products,
                  requested, startDb, lastList, prevList >>

\* A connection in autocommit mode: every statement is durable at once.
Autocommit(durable, working) == working

\* What a statement of an open transaction leaves durable: the connection
\* runs in sqlite3's default mode, where nothing is durable before commit().
Uncommitted(durable, working) == durable

\* sync_products: one iteration of `for raw_product in products`.
SyncItem ==
  /\ pc = "sync"
  /\ idx <= Len(all_products)
  /\ LET r == SyncOne(tx, existing, all_products[idx], timestamp) IN
       /\ fetched_ids' = fetched_ids \cup {all_products[idx].id}
       /\ IF r.raised
          THEN /\ pc' = "raised"
               /\ UNCHANGED << tx, db, changes, idx >>
          ELSE /\ tx' = r.tables
               /\ db' = Uncommitted(db, r.tables)
               /\ changes' = changes \o r.events
               /\ idx' = idx + 1
               /\ pc' = "sync"
  /\ UNCHANGED << catalog, failAt, timestamp, page, all_products, requested,
                  existing, startDb, lastList, prevList >>

\* Removed products handled ahead of the fetched ones.
WithRemovedFirst(cs, order) == RemovedEvents(order) \o cs

\* The change list once the removed ids, visited in `order`, are processed.
WithRemoved(cs, order) == cs \o RemovedEvents(order)

\* sync_products: mark the removed products, then record the changes.
SyncRemoved ==
  /\ pc = "sync"
  /\ idx > Len(all_products)
  /\ \E order \in Orders(DOMAIN existing \ fetched_ids) :
       /\ changes' = WithRemoved(changes, order)
       /\ tx' = RecordChanges(MarkRemoved(tx, order), changes', timestamp)
       /\ db' = Uncommitted(db, tx')
  /\ pc' = "commit"
  /\ UNCHANGED << catalog, failAt, timestamp, page, all_products, requested,
                  existing, fetched_ids, idx, startDb, lastList, prevList >>

\* sync_products: conn.commit(); return changes
SyncCommit ==
  /\ pc = "commit"
  /\ db' = tx
  /\ lastList' = all_products
  /\ pc' = "returned"
  /\ UNCHANGED << tx, catalog, failAt, timestamp, page, all_products,
                  requested, existing, fetched_ids, changes, idx, startDb,
                  prevList >>

\* main after sync_products: complete the run row, commit, report, exit.
Finish ==
  /\ pc = "returned"
  /\ db' = [tx EXCEPT !.runs[Len(tx.runs)] =
              [@ EXCEPT !.completed_at = timestamp,
                        !.products_fetched = Len(all_products),
                        !.changes_detected = Len(changes)]]
  /\ tx' = db'
  /\ startDb' = db'
  /\ ProcessGone

\* main returns after the empty fetch; nothing is pending on the connection.
ExitEmpty ==
  /\ pc = "exit_empty"
  /\ tx' = db
  /\ startDb' = db
  /\ UNCHANGED db
  /\ ProcessGone

\* The IntegrityError leaves main; the open transaction is never committed.
ExitRaised ==
  /\ pc = "raised"
  /\ tx' = db
  /\ startDb' = db
  /\ UNCHANGED db
  /\ ProcessGone

\* The process is killed in the middle of a run: the open transaction is
\* rolled back when the database is next opened.
Crash ==
  /\ pc \in {"fetch", "fetched", "sync", "commit", "returned"}
  /\ tx' = db
  /\ startDb' = db
  /\ UNCHANGED db
  /\ ProcessGone

Next ==
  \/ StartRun
  \/ FetchPage
  \/ ReturnEmpty
  \/ SyncBegin
  \/ SyncItem
  \/ SyncRemoved
  \/ SyncCommit
  \/ Finish
  \/ ExitEmpty
  \/ ExitRaised
  \/ Crash

Spec == Init /\ [][Next]_vars

\* ------------------------------------------- sync_products on its own
\* A caller hands sync_products a non-empty list (main never passes an empty
\* one) and a fresh timestamp, on the store the earlier calls left.
CallSync ==
  /\ pc = "idle"
  /\ timestamp < MaxSyncs
  /\ \E products \in Catalogs \ {<< >>} : all_products' = products
  /\ timestamp' = timestamp + 1
  /\ startDb' = db
  /\ prevList' = lastList
  /\ pc' = "fetched"
  /\ UNCHANGED << db, tx, catalog, failAt, page, requested, existing,
                  fetched_ids, changes, idx, lastList >>

\* The caller has the returned changes; the call is over.
SyncReturn ==
  /\ pc = "returned"
  /\ startDb' = db
  /\ UNCHANGED << db, tx >>
  /\ ProcessGone

NextSync ==
  \/ CallSync
  \/ SyncBegin
  \/ SyncItem
  \/ SyncRemoved
  \/ SyncCommit
  \/ SyncReturn
  \/ ExitRaised

SpecSync == Init /\ [][NextSync]_vars


\* ---------------------------------------- fetch_all_products on its own
\* A call of fetch_all_products against a storefront that lists cat and
\* fails the request for page f (0: none).
CallFetch ==
  /\ pc = "idle"
  /\ \E cat \in Catalogs : \E f \in 0..LastPage(cat) :
       /\ catalog' = cat
       /\ failAt' = f
  /\ page' = 1
  /\ all_products' = << >>
  /\ requested' = << >>
  /\ pc' = "fetch"
  /\ UNCHANGED << db, tx, timestamp, existing, fetched_ids, changes, idx,
                  startDb, lastList, prevList >>

\* `return all_products`: the call is over.
FetchReturn ==
  /\ pc = "fetched"
  /\ UNCHANGED << db, tx, startDb >>
  /\ ProcessGone

NextFetch ==
  \/ CallFetch
  \/ FetchPage
  \/ FetchReturn

SpecFetch == Init /\ [][NextFetch]_vars

\* ================================================================== claims
\* Vocabulary of the claims.

IdsOf(products) == {products[k].id : k \in 1..Len(products)}

UniqueIds(products) ==
  \A a, b \in 1..Len(products) : a /= b => products[a].id /= products[b].id

\* Events of cs about product i that have kind `kind`.
Count(cs, i, kind) ==
  Cardinality({k \in 1..Len(cs) :
                 cs[k].product_id = i /\ cs[k].change_type = kind})

\* A call of sync_products is over: it returned or it raised.
SyncOver == pc \in {"returned", "raised"}

\* What the call gave its caller: nothing when it raised.
Returned == IF pc = "returned" THEN changes ELSE << >>

\* The three tables a sync writes.
Synced(t) ==
  [products |-> t.products, price_history |-> t.price_history,
   changes |-> t.changes]

\* The rows of log `now` that were appended to log `before`.
Appended(before, now) == SubSeq(now, Len(before) + 1, Len(now))

IsPrefix(before, now) ==
  /\ Len(before) <= Len(now)
  /\ SubSeq(now, 1, Len(before)) = before

SubKinds ==
  << "price_change", "availability_change", "sale_started", "sale_ended" >>

\* C1: every fetched id that is not active before the sync (an id flagged
\* removed by an earlier run included) yields exactly one `new` event, every
\* active id that is not fetched yields exactly one `removed` event with
\* empty detail, and a shared id whose price, available and on_sale are
\* unchanged appears in no event.  Stated for fetched lists with unique ids,
\* the case the claim's "fetched set" is about.
C1_NewRemovedUnchanged ==
  (SyncOver /\ UniqueIds(all_products)) =>
    LET old == ActiveIds(startDb)
        new == IdsOf(all_products)
    IN /\ \A i \in new \ old : Count(Returned, i, "new") = 1
       /\ \A i \in old \ new : Count(Returned, i, "removed") = 1
       /\ \A k \in 1..Len(Returned) :
            Returned[k].change_type = "removed" => Returned[k].details = << >>
       /\ \A k \in 1..Len(all_products) :
            LET p == extract_product_data(all_products[k]) IN
            (/\ p.id \in old
             /\ startDb.products[p.id].price = p.price
             /\ (startDb.products[p.id].available = 1) = p.available
             /\ (startDb.products[p.id].on_sale = 1) = p.on_sale)
            => \A e \in 1..Len(Returned) : Returned[e].product_id /= p.id

\* The id i was flagged removed by an earlier run and is fetched again.
Reappears(i) ==
  /\ i \in DOMAIN startDb.products
  /\ startDb.products[i].removed = 1
  /\ i \in IdsOf(all_products)

\* C1 where no tombstoned id is fetched again: the rest of the claim.
C1_WithoutReappearance ==
  (\E i \in Ids : Reappears(i)) \/ C1_NewRemovedUnchanged

\* The kinds of the events of cs about product i, in order.
KindsOf(cs, i) ==
  LET About(e) == e.product_id = i
      es == SelectSeq(cs, About)
  IN [k \in 1..Len(es) |-> es[k].change_type]

\* The sub-kinds, in the fixed order, that the rules give for (old, p).
ExpectedKinds(old, p) ==
  LET Holds(kind) ==
        CASE kind = "price_change" -> old.price /= p.price
          [] kind = "availability_change" -> (old.available = 1) /= p.available
          [] kind = "sale_started" -> old.on_sale = 0 /\ p.on_sale
          [] kind = "sale_ended" -> old.on_sale = 1 /\ ~p.on_sale
  IN SelectSeq(SubKinds, Holds)

\* C2: for every id in both the active set and the fetched list, the call
\* emits at most one event of each sub-kind, in the order price_change,
\* availability_change, sale_started, sale_ended, each iff its rule holds
\* between the row stored before the sync and the fetched product.
C2_SubKindsOncePerId ==
  pc = "returned" =>
    \A k \in 1..Len(all_products) :
      LET p == extract_product_data(all_products[k]) IN
      p.id \in ActiveIds(startDb) =>
        KindsOf(Returned, p.id) = ExpectedKinds(startDb.products[p.id], p)

\* C2 for fetched lists with unique ids.
C2_UniqueIds ==
  UniqueIds(all_products) => C2_SubKindsOncePerId

\* Position of an event in the order the spec documents: new, removed, shared.
DocumentedRank(e) ==
  CASE e.change_type = "new" -> 1
    [] e.change_type = "removed" -> 2
    [] OTHER -> 3

\* C3 as stated: first all `new` events, then all `removed` events, then
\* the events for ids present in both snapshots.
C3_NewRemovedShared ==
  pc = "returned" =>
    \A a, b \in 1..Len(Returned) :
      a < b => DocumentedRank(Returned[a]) <= DocumentedRank(Returned[b])

\* ids can be read off products from left to right (an entry may be used
\* for several consecutive ids).
RECURSIVE FollowsList(_, _)
FollowsList(ids, products) ==
  IF ids = << >> THEN TRUE
  ELSE IF products = << >> THEN FALSE
  ELSE IF Head(ids) = Head(products).id
       THEN FollowsList(Tail(ids), products)
       ELSE FollowsList(ids, Tail(products))

\* C3, amended: the returned sequence, which is also what the call appends
\* to the changes table, is the `new` events and the events of shared ids
\* interleaved in fetched-list order, followed by all the `removed` events.
C3_ListOrderThenRemoved ==
  pc = "returned" =>
    LET NotRemoved(e) == e.change_type /= "removed"
        front == SelectSeq(Returned, NotRemoved)
        rows == Appended(startDb.changes, db.changes)
    IN /\ \A a, b \in 1..Len(Returned) :
            (a < b /\ Returned[a].change_type = "removed")
              => Returned[b].change_type = "removed"
       /\ FollowsList([k \in 1..Len(front) |-> front[k].product_id],
                      all_products)
       /\ IsPrefix(startDb.changes, db.changes)
       /\ Len(rows) = Len(Returned)
       /\ \A k \in 1..Len(rows) :
            /\ rows[k].product_id = Returned[k].product_id
            /\ rows[k].change_type = Returned[k].change_type
            /\ rows[k].details = Returned[k].details

\* C3 witness: a call returned an event of a shared id ahead of a `new`
\* event.
C3_Witness_SharedBeforeNew ==
  /\ pc = "returned"
  /\ \E a, b \in 1..Len(Returned) :
       /\ a < b
       /\ Returned[a].change_type \notin {"new", "removed"}
       /\ Returned[b].change_type = "new"

\* C4: a sync of the list that the last committed sync was given (unique
\* ids) returns no event, appends nothing to changes or price_history and
\* flags no product removed.
C4_Idempotent ==
  (pc = "returned" /\ prevList = all_products /\ UniqueIds(all_products)) =>
    /\ Returned = << >>
    /\ db.changes = startDb.changes
    /\ db.price_history = startDb.price_history
    /\ DOMAIN db.products = DOMAIN startDb.products
    /\ \A i \in DOMAIN db.products :
         db.products[i].removed = startDb.products[i].removed

\* C4 witness: the same two-product list was synced twice in a row, the
\* first time with changes to report.
C4_Witness_Resync ==
  /\ pc = "returned"
  /\ prevList = all_products
  /\ UniqueIds(all_products)
  /\ Len(all_products) = 2
  /\ Len(startDb.changes) > 2

\* C5: no products row is ever deleted, and after every sync the active set
\* is exactly the ids of the fetched list, each with the price, availability
\* and on-sale value extracted in that sync, every other stored id being
\* kept with removed = 1.  Stated for fetched lists with unique ids.
C5_ActiveSetIsFetchedSet ==
  (SyncOver /\ UniqueIds(all_products)) =>
    /\ DOMAIN startDb.products \subseteq DOMAIN db.products
    /\ ActiveIds(db) = IdsOf(all_products)
    /\ \A k \in 1..Len(all_products) :
         LET p == extract_product_data(all_products[k]) IN
         /\ p.id \in DOMAIN db.products
         /\ db.products[p.id].price = p.price
         /\ (db.products[p.id].available = 1) = p.available
         /\ (db.products[p.id].on_sale = 1) = p.on_sale
    /\ \A i \in DOMAIN startDb.products \ IdsOf(all_products) :
         db.products[i].removed = 1

\* C5 for the syncs that fetch no tombstoned id again.
C5_WithoutReappearance ==
  (\E i \in Ids : Reappears(i)) \/ C5_ActiveSetIsFetchedSet

\* The (product, price) pairs that the `new` and `price_change` events of cs
\* announce, in order.
AnnouncedPrices(cs) ==
  LET Priced(e) == e.change_type \in {"new", "price_change"}
      es == SelectSeq(cs, Priced)
  IN [k \in 1..Len(es) |->
        << es[k].product_id,
           IF es[k].change_type = "new"
           THEN es[k].details[1][2] ELSE es[k].details[2][2] >>]

\* The price of the most recent price_history row of product i.
LatestPrice(t, i) ==
  LET ks == {k \in 1..Len(t.price_history) :
               t.price_history[k].product_id = i}
      last == CHOOSE k \in ks : \A m \in ks : m <= k
  IN t.price_history[last].price

\* C9: price_history only grows, a sync appends one row per `new` or
\* `price_change` event, carrying the new price, and after every committed
\* sync the most recent price_history row of each active product carries the
\* price of its products row.
C9_PriceHistoryTracksPrice ==
  pc = "returned" =>
    LET rows == Appended(startDb.price_history, db.price_history) IN
    /\ IsPrefix(startDb.price_history, db.price_history)
    /\ [k \in 1..Len(rows) |-> << rows[k].product_id, rows[k].price >>]
         = AnnouncedPrices(Returned)
    /\ \A i \in ActiveIds(db) :
         /\ \E k \in 1..Len(db.price_history) :
              db.price_history[k].product_id = i
         /\ LatestPrice(db, i) = db.products[i].price

\* C9 witness of the duplicate: a committed sync left an active product
\* whose latest price_history row is not its stored price.
C9_StalePrice ==
  /\ pc = "returned"
  /\ \E i \in ActiveIds(db) : LatestPrice(db, i) /= db.products[i].price

\* ------------------------------------------------------ claims about main
\* A run is between its start and the completion of its sync.
SyncNotCompleted == pc \in {"fetch", "fetched", "sync", "commit"}

\* C6: a run whose fetch result is empty computes no changes and writes
\* nothing: products, price_history and changes stay as they were before the
\* run, durably and on the connection, and the run ends without a sync.
C6_EmptyFetchWritesNothing ==
  (pc \notin {"idle", "fetch"} /\ all_products = << >>) =>
    /\ pc \in {"fetched", "exit_empty"}
    /\ Synced(db) = Synced(startDb)
    /\ Synced(tx) = Synced(startDb)
    /\ changes = << >>

\* C6 witness: a run ended on an empty fetch while products were active.
C6_Witness_EmptyExit ==
  /\ pc = "exit_empty"
  /\ all_products = << >>
  /\ ActiveIds(db) /= {}

\* A page of cat that ends the pagination: empty, or its request fails.
EndsFetch(cat, fail, n) == n = fail \/ PageOf(cat, n) = << >>

FirstEndingPage(cat, fail) ==
  CHOOSE n \in 1..LastPage(cat) :
    /\ EndsFetch(cat, fail, n)
    /\ \A m \in 1..(n - 1) : ~EndsFetch(cat, fail, m)

\* The products of pages 1..n of cat, in page order.
RECURSIVE PagesUpTo(_, _)
PagesUpTo(cat, n) ==
  IF n = 0 THEN << >> ELSE PagesUpTo(cat, n - 1) \o PageOf(cat, n)

\* C7: fetch_all_products requests pages 1, 2, 3, ... in order, stops at the
\* first page that is empty or fails, and returns the products of the pages
\* before it; a failure therefore ends the fetch like an empty page, with
\* what was fetched so far.
C7_FetchStopsAtFirstEndingPage ==
  LET last == FirstEndingPage(catalog, failAt) IN
  /\ pc = "fetch" =>
       /\ requested = [k \in 1..(page - 1) |-> k]
       /\ page <= last
       /\ all_products = PagesUpTo(catalog, page - 1)
  /\ pc = "fetched" =>
       /\ requested = [k \in 1..last |-> k]
       /\ all_products = PagesUpTo(catalog, last - 1)

\* C7 witness: the request for page 2 failed and the fetch ended with the
\* products of page 1.
C7_Witness_FailOnPage2 ==
  /\ pc = "fetched"
  /\ failAt = 2
  /\ requested = << 1, 2 >>
  /\ all_products = PageOf(catalog, 1)
  /\ all_products /= << >>
  /\ Len(catalog) > PageLimit

\* C8 as stated: while the sync of a run has not completed, the durable
\* contents of every table are those of before the run.
C8_EveryTableUntouched ==
  SyncNotCompleted => db = startDb

\* C8, amended: while the sync of a run has not completed, the durable
\* products, price_history and changes tables are those of before the run,
\* and the runs table holds one more row, the started run; when the sync has
\* completed, the three tables hold all the rows of the run together.
C8_SyncTablesAtomic ==
  /\ SyncNotCompleted =>
       /\ Synced(db) = Synced(startDb)
       /\ Len(db.runs) = Len(startDb.runs) + 1
       /\ IsPrefix(startDb.runs, db.runs)
       /\ db.runs[Len(db.runs)].completed_at = 0
  /\ pc \in {"exit_empty", "raised"} => Synced(db) = Synced(startDb)
  /\ pc = "returned" =>
       /\ Synced(db) = Synced(tx)
       /\ Len(Appended(startDb.changes, db.changes)) = Len(changes)

\* C8 witness: the statements of a sync are pending on the connection and
\* nothing of them is durable.
C8_Witness_Pending ==
  /\ pc = "commit"
  /\ Len(tx.changes) > Len(db.changes)
  /\ tx.products /= db.products
  /\ Len(tx.price_history) > Len(db.price_history)

\* C10: a run reports a product removed, and flags it removed = 1, only if
\* the storefront no longer lists it.
C10_NoFalseRemoval ==
  pc = "returned" =>
    /\ \A k \in 1..Len(changes) :
         changes[k].change_type = "removed"
           => changes[k].product_id \notin IdsOf(catalog)
    /\ \A i \in ActiveIds(startDb) :
         db.products[i].removed = 1 => i \notin IdsOf(catalog)

\* C10 for the runs whose pagination no request failure cut short.
C10_CompleteFetch ==
  failAt \in 1..(LastPage(catalog) - 1) \/ C10_NoFalseRemoval

====
